---- MODULE Spec2Model ----
(***************************************************************************)
(* Memory File: the mmap-based arena allocator of src/native/memoryfile.c. *)
(*                                                                         *)
(* The backing file is modelled byte by byte (mem); every header field,    *)
(* allocation header and free node is read from and written to those bytes *)
(* in native little-endian order, in the order the C code does it, so that *)
(* overlapping structures alias exactly as they do in the mapping.         *)
(* A pointer is modelled by the file offset it designates; NULL is -1.     *)
(* TLC computes with 32-bit integers: a u64 is modelled as a 30-bit word    *)
(* (U64Mod), so that sums of two words can be formed and then wrapped the   *)
(* way the C arithmetic wraps modulo 2^64.  Sizes and offsets "near 2^64"  *)
(* are the words near U64Mod.                                              *)
(***************************************************************************)
EXTENDS Integers, Sequences, FiniteSets, TLC

(* ----------------------------- bounds ---------------------------------- *)
\* number of mutating calls (alloc, free, coalesce, write) in a behaviour
MaxOps == 4
\* the same, in behaviours of SpecDeep
MaxDeepOps == 8
\* longest byte sequence a caller writes in one memfile_write
MaxLen == 2
\* number of mutating calls in behaviours of SpecWide
MaxWideOps == 3
\* number of mutating calls in behaviours of SpecIO
MaxIoOps == 3
\* number of allocs in behaviours of SpecOpen
MaxOpenOps == 2
\* calls on the open handle per behaviour of SpecClosed
MaxClosedOps == 2
\* alloc, free and coalesce calls of both processes per behaviour of SpecLock
MaxLockOps == 3

\* sizes passed to memfile_alloc
AllocSizes == {0, 2, 100}
\* initial_size values passed to memfile_open
InitialSizes == {64, 128}
\* first bytes of the sequences a caller writes
PayloadBytes == {7, 16}

(* ------------------------- program constants --------------------------- *)
MEMFILE_MAGIC == 1296387398      \* 0x4D454D46
MEMFILE_VERSION == 1
HeaderSize == 32                 \* sizeof(memfile_header_t)
AllocHdrSize == 8                \* sizeof(memfile_alloc_t)
FreeNodeSize == 16               \* sizeof(memfile_free_t)
PageSize == 4096
NULL == -1
\* number of values of a u64 (size_t is as wide), scaled from 2^64 to 2^30
U64Mod == 1073741824

\* u64 arithmetic wraps
Wrap(x) == x % U64Mod

\* off_t is signed: a length with the top bit set is negative
FitsOffT(n) == n < U64Mod \div 2

\* byte offsets of the fields of memfile_header_t (packed)
OffMagic == 0
OffVersion == 4
OffFileSize == 8
OffAllocated == 16
OffFreeListHead == 24

(* --------------------------- mapped bytes ------------------------------ *)
\* mem holds the non-zero bytes of the file; every other byte reads as 0
\* (ftruncate extends a file with zero bytes).
Load8(m, o) == IF o \in DOMAIN m THEN m[o] ELSE 0

Store8(m, o, b) ==
    IF b # 0 THEN (o :> b) @@ m
    ELSE IF o \in DOMAIN m THEN [x \in DOMAIN m \ {o} |-> m[x]] @@ <<>>
    ELSE m

RECURSIVE LoadLE(_, _, _)
LoadLE(m, o, n) ==
    IF n = 0 THEN 0 ELSE Load8(m, o) + 256 * LoadLE(m, o + 1, n - 1)

\* byte k of the little-endian encoding of v
RECURSIVE ByteLE(_, _)
ByteLE(v, k) == IF k = 0 THEN v % 256 ELSE ByteLE(v \div 256, k - 1)

\* an n-byte little-endian store at o: bytes o..o+n-1 take the encoding of v
StoreLE(m, o, v, n) ==
    LET span == o..(o + n - 1)
        keep == (DOMAIN m \ span) \cup {x \in span : ByteLE(v, x - o) # 0}
    IN  [x \in keep |-> IF x \in span THEN ByteLE(v, x - o) ELSE m[x]] @@ <<>>

LoadU64(m, o) == LoadLE(m, o, 8)
StoreU64(m, o, v) == StoreLE(m, o, v, 8)
LoadU32(m, o) == LoadLE(m, o, 4)
StoreU32(m, o, v) == StoreLE(m, o, v, 4)

\* memcpy(dst, buf, len) into the mapping
RECURSIVE StoreBytes(_, _, _)
StoreBytes(m, o, b) ==
    IF b = <<>> THEN m ELSE StoreBytes(Store8(m, o, Head(b)), o + 1, Tail(b))

\* memcpy(buf, src, len) out of the mapping
LoadBytes(m, o, len) == [i \in 1..len |-> Load8(m, o + i - 1)]

\* memfile_header_t fields, read through mf->header
Magic(m) == LoadU32(m, OffMagic)
Version(m) == LoadU32(m, OffVersion)
FileSize(m) == LoadU64(m, OffFileSize)
Allocated(m) == LoadU64(m, OffAllocated)
FreeListHead(m) == LoadU64(m, OffFreeListHead)

(* ------------------------- pointer conversion -------------------------- *)
\* a variant of memfile_ptr that also refuses offsets inside the file header
memfile_ptrPastHeader(msz, offset) ==
    IF offset < HeaderSize \/ offset >= msz THEN NULL ELSE offset

memfile_ptr(msz, offset) ==
    IF offset = 0 \/ offset >= msz THEN NULL ELSE offset

\* Dereferencing n bytes at ptr faults when ptr is NULL or the access leaves
\* the mapping.
Faults(msz, ptr, n) == ptr = NULL \/ ptr + n > msz

(* ------------------------ direct read / write -------------------------- *)
\* result: <<return code, bytes copied into buf>>
memfile_read(m, msz, offset, len) ==
    IF Wrap(offset + len) > msz THEN [rc |-> -1, buf |-> <<>>]
    ELSE IF memfile_ptr(msz, offset) = NULL THEN [rc |-> -1, buf |-> <<>>]
    ELSE [rc |-> 0, buf |-> LoadBytes(m, offset, len)]

\* result: <<return code, bytes of the file afterwards>>
memfile_write(m, msz, offset, b) ==
    IF Wrap(offset + Len(b)) > msz THEN [rc |-> -1, mem |-> m]
    ELSE IF memfile_ptr(msz, offset) = NULL THEN [rc |-> -1, mem |-> m]
    ELSE [rc |-> 0, mem |-> StoreBytes(m, offset, b)]

\* lines 31-33 and 39-41: the two tests that make read and write return -1
OutOfBounds(msz, offset, len) ==
    Wrap(offset + len) > msz \/ memfile_ptr(msz, offset) = NULL

\* lines 34 and 42: memcpy of len bytes runs off the end of the mapping (and
\* of the caller's buffer); this is reached only when offset + len wrapped
CopyFaults(msz, offset, len) == offset + len > msz

(* --------------------------- file growth ------------------------------- *)
\* sys names the system call that fails during this call, if any:
\* "ok" (none), "ftruncate" or "mremap".
SysOutcomes == {"ok", "ftruncate", "mremap"}

memfile_remap(m, msz, ssz, new_size, sys) ==
    IF sys = "ftruncate" \/ ~FitsOffT(new_size)
    THEN [rc |-> -1, mem |-> m, mmap_size |-> msz, st_size |-> ssz]
    ELSE IF sys = "mremap"
    THEN [rc |-> -1, mem |-> m, mmap_size |-> msz, st_size |-> new_size]
    ELSE [rc |-> 0, mem |-> StoreU64(m, OffFileSize, new_size),
          mmap_size |-> new_size, st_size |-> new_size]

\* TRUE when memfile_ensure_space has to grow the file
NeedsGrow(m, needed) == ~(Wrap(Allocated(m) + needed) <= FileSize(m))

\* a variant of GrowSize that always doubles the mapping
GrowSizeDouble(m, msz, needed) == Wrap(msz * 2)

GrowSize(m, msz, needed) ==
    IF Wrap(msz * 2) < Wrap(Allocated(m) + needed)
    THEN Wrap(Allocated(m) + needed + PageSize)
    ELSE Wrap(msz * 2)

memfile_ensure_space(m, msz, ssz, needed, sys) ==
    IF ~NeedsGrow(m, needed)
    THEN [rc |-> 0, mem |-> m, mmap_size |-> msz, st_size |-> ssz]
    ELSE memfile_remap(m, msz, ssz, GrowSize(m, msz, needed), sys)

(* ----------------------------- allocation ------------------------------ *)
\* (total_size + 7) & ~7ULL
Align8(x) == (Wrap(x + 7) \div 8) * 8

TotalSize(size) == Align8(Wrap(size + AllocHdrSize))

\* The first-fit walk of memfile_alloc (lines 92-134).  Nothing is written
\* during the walk, so reaching an offset a second time means the loop never
\* ends ("hang"); a free_block pointer that cannot be dereferenced faults
\* ("crash").  Otherwise the walk ends at the first node with
\* size >= total_size ("fit") or at the end of the list ("none").
RECURSIVE FindFit(_, _, _, _, _, _)
FindFit(m, msz, prev_offset, free_offset, total_size, seen) ==
    IF free_offset = 0
    THEN [kind |-> "none", prev |-> prev_offset, at |-> 0]
    ELSE IF free_offset \in seen
    THEN [kind |-> "hang", prev |-> prev_offset, at |-> free_offset]
    ELSE IF Faults(msz, memfile_ptr(msz, free_offset), FreeNodeSize)
    THEN [kind |-> "crash", prev |-> prev_offset, at |-> free_offset]
    ELSE IF LoadU64(m, free_offset) >= total_size
    THEN [kind |-> "fit", prev |-> prev_offset, at |-> free_offset]
    ELSE FindFit(m, msz, free_offset, LoadU64(m, free_offset + 8), total_size,
                 seen \cup {free_offset})

\* patch the predecessor's next (or free_list_head) to `target`
Relink(m, prev_offset, target) ==
    IF prev_offset = 0
    THEN StoreU64(m, OffFreeListHead, target)
    ELSE StoreU64(m, prev_offset + 8, target)

\* lines 101-113: split the block found at free_offset
SplitBlock(m, msz, ssz, prev_offset, free_offset, total_size) ==
    LET remaining == LoadU64(m, free_offset) - total_size
        new_free_offset == Wrap(free_offset + total_size)
        m1 == StoreU64(m, new_free_offset, remaining)
        m2 == StoreU64(m1, new_free_offset + 8, LoadU64(m1, free_offset + 8))
        m3 == Relink(m2, prev_offset, new_free_offset)
        m4 == StoreU64(m3, free_offset, total_size)
    IN  IF Faults(msz, memfile_ptr(msz, new_free_offset), FreeNodeSize)
        THEN [mem |-> m, mmap_size |-> msz, st_size |-> ssz, ret |-> 0,
              fault |-> "crash"]
        ELSE [mem |-> m4, mmap_size |-> msz, st_size |-> ssz,
              ret |-> Wrap(free_offset + AllocHdrSize), fault |-> "none"]

\* lines 114-129: hand out the whole block found at free_offset
ConsumeBlock(m, msz, ssz, prev_offset, free_offset) ==
    LET total_size == LoadU64(m, free_offset)
        m1 == Relink(m, prev_offset, LoadU64(m, free_offset + 8))
        m2 == StoreU64(m1, free_offset, total_size)
    IN  [mem |-> m2, mmap_size |-> msz, st_size |-> ssz,
         ret |-> Wrap(free_offset + AllocHdrSize), fault |-> "none"]

\* lines 136-146: bump allocation from the end
BumpAlloc(m, msz, ssz, total_size, sys) ==
    LET g == memfile_ensure_space(m, msz, ssz, total_size, sys)
        offset == Allocated(g.mem)
        m1 == StoreU64(g.mem, offset, total_size)
        m2 == StoreU64(m1, OffAllocated, Wrap(Allocated(m1) + total_size))
    IN  IF g.rc < 0
        THEN [mem |-> g.mem, mmap_size |-> g.mmap_size, st_size |-> g.st_size,
              ret |-> 0, fault |-> "none"]
        ELSE IF Faults(g.mmap_size, memfile_ptr(g.mmap_size, offset), AllocHdrSize)
        THEN [mem |-> g.mem, mmap_size |-> g.mmap_size, st_size |-> g.st_size,
              ret |-> 0, fault |-> "crash"]
        ELSE [mem |-> m2, mmap_size |-> g.mmap_size, st_size |-> g.st_size,
              ret |-> Wrap(offset + AllocHdrSize), fault |-> "none"]

MinRemainder == FreeNodeSize + 8

memfile_alloc(m, msz, ssz, size, sys) ==
    LET total_size == TotalSize(size)
        hit == FindFit(m, msz, 0, FreeListHead(m), total_size, {})
    IN  CASE hit.kind = "fit" ->
               IF LoadU64(m, hit.at) - total_size >= MinRemainder
               THEN SplitBlock(m, msz, ssz, hit.prev, hit.at, total_size)
               ELSE ConsumeBlock(m, msz, ssz, hit.prev, hit.at)
          [] hit.kind = "none" -> BumpAlloc(m, msz, ssz, total_size, sys)
          [] OTHER -> [mem |-> m, mmap_size |-> msz, st_size |-> ssz,
                       ret |-> 0, fault |-> hit.kind]

\* result: the file bytes afterwards, and whether the call faulted
memfile_free(m, msz, offset) ==
    LET alloc_offset == Wrap(offset - AllocHdrSize)
        m1 == StoreU64(m, alloc_offset, LoadU64(m, alloc_offset))
        m2 == StoreU64(m1, alloc_offset + 8, FreeListHead(m1))
        m3 == StoreU64(m2, OffFreeListHead, alloc_offset)
    IN  IF offset = 0 THEN [mem |-> m, fault |-> "none"]
        ELSE IF Faults(msz, memfile_ptr(msz, alloc_offset), FreeNodeSize)
        THEN [mem |-> m, fault |-> "crash"]
        ELSE [mem |-> m3, fault |-> "none"]

(* ----------------------------- coalescing ------------------------------ *)
\* lines 170-190: count the free blocks and collect them into the temp
\* array, in list order.  A cycle makes the counting loop endless ("hang").
RECURSIVE CollectBlocks(_, _, _, _)
CollectBlocks(m, msz, offset, acc) ==
    IF offset = 0
    THEN [kind |-> "ok", blocks |-> acc]
    ELSE IF \E i \in 1..Len(acc) : acc[i].offset = offset
    THEN [kind |-> "hang", blocks |-> acc]
    ELSE IF Faults(msz, memfile_ptr(msz, offset), FreeNodeSize)
    THEN [kind |-> "crash", blocks |-> acc]
    ELSE CollectBlocks(m, msz, LoadU64(m, offset + 8),
                       Append(acc, [offset |-> offset, size |-> LoadU64(m, offset)]))

\* lines 194-202: one step of the insertion sort; `sorted` is blocks[0..i-1],
\* key is blocks[i]; entries with a greater offset move one place up
RECURSIVE InsertKey(_, _)
InsertKey(sorted, key) ==
    IF sorted = <<>> THEN <<key>>
    ELSE IF sorted[Len(sorted)].offset > key.offset
    THEN Append(InsertKey(SubSeq(sorted, 1, Len(sorted) - 1), key), sorted[Len(sorted)])
    ELSE Append(sorted, key)

\* lines 193-203: sort by offset
RECURSIVE SortBlocks(_)
SortBlocks(blocks) ==
    IF Len(blocks) <= 1 THEN blocks
    ELSE InsertKey(SortBlocks(SubSeq(blocks, 1, Len(blocks) - 1)), blocks[Len(blocks)])

\* line 208-209: the block at `b` starts where the last merged block ends
Adjacent(a, b) == Wrap(a.offset + a.size) = b.offset

\* lines 206-217: merge adjacent blocks; the result is blocks[0..write_idx-1]
RECURSIVE MergeBlocks(_)
MergeBlocks(blocks) ==
    IF blocks = <<>> THEN <<>>
    ELSE LET done == MergeBlocks(SubSeq(blocks, 1, Len(blocks) - 1))
             b == blocks[Len(blocks)]
             n == Len(done)
         IN  IF n > 0 /\ Adjacent(done[n], b)
             THEN [done EXCEPT ![n].size = Wrap(done[n].size + b.size)]
             ELSE Append(done, b)

\* lines 221-225: rewrite the surviving nodes, from index i on
RECURSIVE RebuildList(_, _, _)
RebuildList(m, blocks, i) ==
    IF i > Len(blocks) THEN m
    ELSE RebuildList(StoreU64(StoreU64(m, blocks[i].offset, blocks[i].size),
                              blocks[i].offset + 8,
                              IF i + 1 <= Len(blocks) THEN blocks[i + 1].offset ELSE 0),
                     blocks, i + 1)

\* result: the file bytes afterwards, and whether the call faulted or hung
memfile_coalesce(m, msz) ==
    LET c == CollectBlocks(m, msz, FreeListHead(m), <<>>)
        merged == MergeBlocks(SortBlocks(c.blocks))
        m1 == StoreU64(m, OffFreeListHead, merged[1].offset)
    IN  IF FreeListHead(m) = 0 THEN [mem |-> m, fault |-> "none"]
        ELSE IF c.kind # "ok" THEN [mem |-> m, fault |-> c.kind]
        ELSE IF Len(c.blocks) < 2 THEN [mem |-> m, fault |-> "none"]
        ELSE [mem |-> RebuildList(m1, merged, 1), fault |-> "none"]

(* ----------------------------- open / close ---------------------------- *)
\* line 256: stat(path) == 0 && st.st_size > 0 (an absent file has size 0 here)
Exists(ssz) == ssz > 0

\* a variant of InitialSize that never goes below a page
InitialSizeMax(initial_size) ==
    IF initial_size < PageSize THEN PageSize ELSE initial_size

\* lines 277-279
InitialSize(initial_size) ==
    IF initial_size < HeaderSize + 64 THEN PageSize ELSE initial_size

\* lines 292-296: the header of a freshly created file
FreshHeader(initial_size) ==
    LET m1 == StoreU32(<<>>, OffMagic, MEMFILE_MAGIC)
        m2 == StoreU32(m1, OffVersion, MEMFILE_VERSION)
        m3 == StoreU64(m2, OffFileSize, initial_size)
        m4 == StoreU64(m3, OffAllocated, HeaderSize)
    IN  StoreU64(m4, OffFreeListHead, 0)

\* fail names the system call that fails, if any: "ok", "open", "ftruncate"
\* or "mmap".  result: whether a handle is returned, and the file afterwards.
OpenOutcomes == {"ok", "open", "ftruncate", "mmap"}

\* a variant of OpenExisting that writes a fresh header over the file it maps;
\* C7 must tell it from the code
OpenExistingReinit(m, ssz, fail) ==
    IF fail \in {"open", "mmap"}
    THEN [ok |-> FALSE, mem |-> m, mmap_size |-> 0, st_size |-> ssz]
    ELSE [ok |-> TRUE, mem |-> FreshHeader(ssz), mmap_size |-> ssz, st_size |-> ssz]

\* lines 258-272: the file exists and is not empty
OpenExisting(m, ssz, fail) ==
    IF fail \in {"open", "mmap"}
    THEN [ok |-> FALSE, mem |-> m, mmap_size |-> 0, st_size |-> ssz]
    ELSE IF Magic(m) # MEMFILE_MAGIC
    THEN [ok |-> FALSE, mem |-> m, mmap_size |-> 0, st_size |-> ssz]
    ELSE [ok |-> TRUE, mem |-> m, mmap_size |-> ssz, st_size |-> ssz]

\* lines 273-297: the file is absent or empty
OpenFresh(m, ssz, initial_size, fail) ==
    IF fail \in {"open", "ftruncate"}
    THEN [ok |-> FALSE, mem |-> m, mmap_size |-> 0, st_size |-> ssz]
    ELSE IF fail = "mmap"
    THEN [ok |-> FALSE, mem |-> <<>>, mmap_size |-> 0, st_size |-> 0]
    ELSE [ok |-> TRUE, mem |-> FreshHeader(InitialSize(initial_size)),
          mmap_size |-> InitialSize(initial_size),
          st_size |-> InitialSize(initial_size)]

memfile_open(m, ssz, initial_size, fail) ==
    IF Exists(ssz)
    THEN OpenExisting(m, ssz, fail)
    ELSE OpenFresh(m, ssz, initial_size, fail)

\* system calls issued by memfile_sync on a handle whose closed flag is c
memfile_sync(c, mapped) ==
    IF c \/ ~mapped THEN <<>> ELSE <<"msync">>

\* a variant of memfile_close without the test of the closed flag
memfile_closeAgain(c, mapped) ==
    memfile_sync(TRUE, mapped) \o <<"munmap", "close", "free_path">>

\* system calls issued by memfile_close: the closed flag is set before
\* memfile_sync is called (lines 316-317)
memfile_close(c, mapped) ==
    IF c THEN <<>>
    ELSE memfile_sync(TRUE, mapped) \o <<"munmap", "close", "free_path">>

(* ------------------------------- state --------------------------------- *)
VARIABLES
    state,      \* handle lifecycle: "New" (no handle), "Open", "Closed"
    fault,      \* "none", or how the last call ended the process: "crash", "hang"
    mem,        \* the bytes of the backing file (shared mapping)
    st_size,    \* length of the backing file; 0 when absent or empty
    mmap_size,  \* mf->mmap_size
    events,     \* system calls issued by the last call, if it was sync or close
    buf,        \* the caller's buffer, if the last call was memfile_read
    last,       \* the last call: its name, argument, result, failing system call
    live,       \* offsets returned by alloc and not freed since -> requested size
    rt,         \* the last full-length write into a live allocation, while
                \* only allocs have followed it
    snap,       \* what stats and read returned when the handle was closed
    ops,        \* mutating calls made so far (see MaxOps)
    peer,       \* the handle of a second process on the same file: whether
                \* it is open, and its own mf->mmap_size
    lock        \* holder of the exclusive flock on the file: 0 (nobody), 1, 2

vars == <<state, fault, mem, st_size, mmap_size, events, buf, last, live, rt,
          snap, ops, peer, lock>>

NoLive == [x \in {} |-> 0]
NoPeer == [open |-> FALSE, mmap_size |-> 0]
NoRt == [on |-> FALSE, p |-> 0, b |-> <<>>]
NoSnap == [on |-> FALSE, synced |-> FALSE, file_size |-> 0, allocated |-> 0,
           free_list_head |-> 0, reads |-> NoLive]

Call(op, a, ret, sys) == [op |-> op, a |-> a, ret |-> ret, sys |-> sys]

Init ==
    /\ state = "New"
    /\ fault = "none"
    /\ mem = <<>>
    /\ st_size = 0
    /\ mmap_size = 0
    /\ events = <<>>
    /\ buf = <<>>
    /\ last = Call("none", 0, 0, "none")
    /\ live = NoLive
    /\ rt = NoRt
    /\ snap = NoSnap
    /\ ops = 0
    /\ peer = NoPeer
    /\ lock = 0

IsOpen == state = "Open" /\ fault = "none"

\* stats(): the three header fields the binding reports
Stats(m) == [file_size |-> FileSize(m), allocated |-> Allocated(m),
             free_list_head |-> FreeListHead(m)]

\* read(p, n) for every live offset p, n the size it was allocated with
LiveReads(m, msz, lv) == [p \in DOMAIN lv |-> memfile_read(m, msz, p, lv[p])]

Open(initial_size, fail) ==
    /\ state \in {"New", "Closed"}
    /\ fault = "none"
    /\ LET r == memfile_open(mem, st_size, initial_size, fail)
       IN  /\ state' = IF r.ok THEN "Open" ELSE "New"
           /\ mem' = r.mem
           /\ st_size' = r.st_size
           /\ mmap_size' = r.mmap_size
           /\ last' = Call(IF Exists(st_size) THEN "reopen" ELSE "open",
                           IF Exists(st_size) THEN 0 ELSE initial_size,
                           IF r.ok THEN 1 ELSE 0, fail)
           /\ live' = IF Exists(st_size) THEN live ELSE NoLive
           /\ snap' = IF Exists(st_size) /\ state = "Closed" /\ r.ok
                      THEN snap ELSE NoSnap
    /\ events' = <<>>
    /\ buf' = <<>>
    /\ rt' = NoRt
    /\ UNCHANGED <<fault, ops, peer, lock>>

Alloc(size, sys) ==
    /\ IsOpen
    /\ LET r == memfile_alloc(mem, mmap_size, st_size, size, sys)
           grows == /\ FindFit(mem, mmap_size, 0, FreeListHead(mem),
                               TotalSize(size), {}).kind = "none"
                    /\ NeedsGrow(mem, TotalSize(size))
       IN  /\ grows \/ sys = "ok"
           /\ mem' = r.mem
           /\ mmap_size' = r.mmap_size
           /\ st_size' = r.st_size
           /\ fault' = r.fault
           /\ last' = Call("alloc", size, r.ret, IF grows THEN sys ELSE "none")
           /\ live' = IF r.fault = "none" /\ r.ret # 0
                      THEN [p \in DOMAIN live \cup {r.ret} |->
                               IF p = r.ret THEN size ELSE live[p]]
                      ELSE live
    /\ ops' = ops + 1
    /\ events' = <<>>
    /\ buf' = <<>>
    /\ snap' = NoSnap
    /\ UNCHANGED <<state, rt, peer, lock>>

Free(offset) ==
    /\ IsOpen
    /\ offset \in DOMAIN live
    /\ LET r == memfile_free(mem, mmap_size, offset)
       IN  /\ mem' = r.mem
           /\ fault' = r.fault
    /\ last' = Call("free", offset, 0, "none")
    /\ live' = [p \in DOMAIN live \ {offset} |-> live[p]]
    /\ rt' = NoRt
    /\ ops' = ops + 1
    /\ events' = <<>>
    /\ buf' = <<>>
    /\ snap' = NoSnap
    /\ UNCHANGED <<state, st_size, mmap_size, peer, lock>>

\* free(0) is a no-op (line 150)
FreeNull ==
    /\ IsOpen
    /\ mem' = memfile_free(mem, mmap_size, 0).mem
    /\ last' = Call("free", 0, 0, "none")
    /\ events' = <<>>
    /\ buf' = <<>>
    /\ snap' = NoSnap
    /\ UNCHANGED <<state, fault, st_size, mmap_size, live, rt, ops, peer, lock>>

Coalesce ==
    /\ IsOpen
    /\ LET r == memfile_coalesce(mem, mmap_size)
       IN  /\ mem' = r.mem
           /\ fault' = r.fault
    /\ last' = Call("coalesce", 0, 0, "none")
    /\ rt' = NoRt
    /\ ops' = ops + 1
    /\ events' = <<>>
    /\ buf' = <<>>
    /\ snap' = NoSnap
    /\ UNCHANGED <<state, st_size, mmap_size, live, peer, lock>>

\* byte sequences a caller writes into the allocation at p: as long as the
\* allocation, up to MaxLen bytes, counting up from a first byte
Payloads(p) ==
    LET n == IF live[p] < MaxLen THEN live[p] ELSE MaxLen
    IN  {[i \in 1..n |-> v + i - 1] : v \in PayloadBytes}

Write(p, b) ==
    /\ IsOpen
    /\ p \in DOMAIN live
    /\ live[p] > 0
    /\ b \in Payloads(p)
    /\ LET r == memfile_write(mem, mmap_size, p, b)
       IN  /\ mem' = r.mem
           /\ last' = Call("write", p, r.rc, "none")
           /\ rt' = IF r.rc = 0 /\ Len(b) = live[p]
                    THEN [on |-> TRUE, p |-> p, b |-> b]
                    ELSE NoRt
    /\ ops' = ops + 1
    /\ events' = <<>>
    /\ buf' = <<>>
    /\ snap' = NoSnap
    /\ UNCHANGED <<state, fault, st_size, mmap_size, live, peer, lock>>

Read(p) ==
    /\ IsOpen
    /\ p \in DOMAIN live
    /\ LET r == memfile_read(mem, mmap_size, p, live[p])
       IN  /\ buf' = r.buf
           /\ last' = Call("read", p, r.rc, "none")
    /\ events' = <<>>
    /\ snap' = NoSnap
    /\ UNCHANGED <<state, fault, mem, st_size, mmap_size, live, rt, ops, peer, lock>>

Sync ==
    /\ state \in {"Open", "Closed"}
    /\ fault = "none"
    /\ events' = memfile_sync(state = "Closed", TRUE)
    /\ last' = Call("sync", IF state = "Open" THEN 1 ELSE 0, 0, "none")
    /\ buf' = <<>>
    /\ snap' = IF state = "Closed" THEN snap ELSE NoSnap
    /\ UNCHANGED <<state, fault, mem, st_size, mmap_size, live, rt, ops, peer, lock>>

Close ==
    /\ state \in {"Open", "Closed"}
    /\ fault = "none"
    /\ events' = memfile_close(state = "Closed", TRUE)
    /\ last' = Call("close", IF state = "Open" THEN 1 ELSE 0, 0, "none")
    /\ snap' = IF state = "Open"
               THEN [on |-> TRUE, synced |-> last.op = "sync",
                     file_size |-> FileSize(mem), allocated |-> Allocated(mem),
                     free_list_head |-> FreeListHead(mem),
                     reads |-> LiveReads(mem, mmap_size, live)]
               ELSE snap
    /\ state' = "Closed"
    /\ buf' = <<>>
    /\ rt' = NoRt
    /\ UNCHANGED <<fault, mem, st_size, mmap_size, live, ops, peer, lock>>

\* memfile_read(mf, offset, buf, len) with any offset and length.  buf is <<>>
\* when nothing was copied into the caller's buffer.
ReadAt(offset, len) ==
    /\ IsOpen
    /\ LET oob == OutOfBounds(mmap_size, offset, len)
           crash == ~oob /\ CopyFaults(mmap_size, offset, len)
       IN  /\ fault' = IF crash THEN "crash" ELSE "none"
           /\ buf' = IF oob \/ crash THEN <<>>
                     ELSE memfile_read(mem, mmap_size, offset, len).buf
           /\ last' = Call("read_at", <<offset, len>>,
                           IF oob THEN -1 ELSE 0, "none")
    /\ events' = <<>>
    /\ rt' = NoRt
    /\ snap' = NoSnap
    /\ UNCHANGED <<state, mem, st_size, mmap_size, live, ops, peer, lock>>

\* memfile_write(mf, offset, buf, len) with any offset and length, buf
\* holding len bytes v (or fewer than len when len is near 2^64).  A memcpy
\* that runs off the mapping ends the process after it has written nothing
\* or the first bytes of buf.
WriteAt(offset, len, v) ==
    /\ IsOpen
    /\ LET oob == OutOfBounds(mmap_size, offset, len)
           crash == ~oob /\ CopyFaults(mmap_size, offset, len)
       IN  /\ fault' = IF crash THEN "crash" ELSE "none"
           /\ IF oob THEN mem' = mem
              ELSE IF crash THEN mem' \in {mem, StoreBytes(mem, offset, <<v>>)}
              ELSE mem' = memfile_write(mem, mmap_size, offset,
                                        [i \in 1..len |-> v]).mem
           /\ last' = Call("write_at", <<offset, len>>,
                           IF oob THEN -1 ELSE 0, "none")
    /\ ops' = ops + 1
    /\ events' = <<>>
    /\ buf' = <<>>
    /\ rt' = NoRt
    /\ snap' = NoSnap
    /\ UNCHANGED <<state, st_size, mmap_size, live, peer, lock>>

\* mf_release, the finalizer of the binding's handle: memfile_close, then
\* free(mf).  It runs on a handle that was closed explicitly or never closed.
Release ==
    /\ state \in {"Open", "Closed"}
    /\ fault = "none"
    /\ events' = memfile_close(state = "Closed", TRUE) \o <<"free_mf">>
    /\ last' = Call("release", IF state = "Open" THEN 1 ELSE 0, 0, "none")
    /\ state' = "New"
    /\ buf' = <<>>
    /\ rt' = NoRt
    /\ snap' = NoSnap
    /\ UNCHANGED <<fault, mem, st_size, mmap_size, live, ops, peer, lock>>

(* ---------------------- calls on a closed handle ----------------------- *)
\* memfile_close leaves mf->mmap_base, mf->header and mf->mmap_size as they
\* were (lines 314-321) and no operation but sync and close looks at
\* mf->closed.  An access through the stale base address or header pointer
\* reads or writes an unmapped range: the process is killed ("crash"), or the
\* access lands in whatever has been mapped at that address since ("stale").
Unmapped == {"crash", "stale"}

\* memfile_read on a closed handle: the bounds test against the stale
\* mmap_size and the offset test of memfile_ptr still reject; anything else
\* is a memcpy from the stale base address
ClosedRead(offset, len) ==
    /\ state = "Closed"
    /\ fault = "none"
    /\ LET oob == OutOfBounds(mmap_size, offset, len)
       IN  /\ fault' \in (IF oob THEN {"none"} ELSE Unmapped)
           /\ last' = Call("read_at", <<offset, len>>, IF oob THEN -1 ELSE 0, "none")
    /\ events' = <<>>
    /\ buf' = <<>>
    /\ UNCHANGED <<state, mem, st_size, mmap_size, live, rt, snap, ops, peer, lock>>

\* memfile_write on a closed handle
ClosedWrite(offset, len) ==
    /\ state = "Closed"
    /\ fault = "none"
    /\ LET oob == OutOfBounds(mmap_size, offset, len)
       IN  /\ fault' \in (IF oob THEN {"none"} ELSE Unmapped)
           /\ last' = Call("write_at", <<offset, len>>, IF oob THEN -1 ELSE 0, "none")
    /\ events' = <<>>
    /\ buf' = <<>>
    /\ UNCHANGED <<state, mem, st_size, mmap_size, live, rt, snap, ops, peer, lock>>

\* memfile_alloc on a closed handle: mf->header->free_list_head is read
\* before anything else (line 93)
ClosedAlloc(size) ==
    /\ state = "Closed"
    /\ fault = "none"
    /\ fault' \in Unmapped
    /\ last' = Call("alloc", size, 0, "none")
    /\ events' = <<>>
    /\ buf' = <<>>
    /\ UNCHANGED <<state, mem, st_size, mmap_size, live, rt, snap, ops, peer, lock>>

\* memfile_free on a closed handle: free(0) returns at once (line 150);
\* otherwise alloc->size is read through memfile_ptr, a null pointer when
\* offset - 8 is 0 or not below the stale mmap_size
ClosedFree(offset) ==
    /\ state = "Closed"
    /\ fault = "none"
    /\ fault' \in (IF offset = 0 THEN {"none"}
                   ELSE IF memfile_ptr(mmap_size, Wrap(offset - AllocHdrSize)) = NULL
                   THEN {"crash"}
                   ELSE Unmapped)
    /\ last' = Call("free", offset, 0, "none")
    /\ events' = <<>>
    /\ buf' = <<>>
    /\ UNCHANGED <<state, mem, st_size, mmap_size, live, rt, snap, ops, peer, lock>>

\* memfile_coalesce on a closed handle: the first statement tests
\* mf->header->free_list_head (line 168)
ClosedCoalesce ==
    /\ state = "Closed"
    /\ fault = "none"
    /\ fault' \in Unmapped
    /\ last' = Call("coalesce", 0, 0, "none")
    /\ events' = <<>>
    /\ buf' = <<>>
    /\ UNCHANGED <<state, mem, st_size, mmap_size, live, rt, snap, ops, peer, lock>>

\* stats() of the binding on a closed handle: mf->header->file_size,
\* allocated and free_list_head are read (binding.c lines 285-291)
ClosedStats ==
    /\ state = "Closed"
    /\ fault = "none"
    /\ fault' \in Unmapped
    /\ last' = Call("stats", 0, 0, "none")
    /\ events' = <<>>
    /\ buf' = <<>>
    /\ UNCHANGED <<state, mem, st_size, mmap_size, live, rt, snap, ops, peer, lock>>

(* ------------------- a second process on the same file ------------------ *)
\* memfile_open of the second process on the file the first has created:
\* it maps the st_size bytes the file has at that moment
PeerOpen ==
    /\ state = "Open"
    /\ fault = "none"
    /\ ~peer.open
    /\ Exists(st_size)
    /\ LET r == memfile_open(mem, st_size, PageSize, "ok")
       IN  /\ peer' = [open |-> r.ok, mmap_size |-> r.mmap_size]
           /\ mem' = r.mem
           /\ st_size' = r.st_size
           /\ last' = Call("peer_open", 0, IF r.ok THEN 1 ELSE 0, "ok")
    /\ events' = <<>>
    /\ buf' = <<>>
    /\ UNCHANGED <<state, fault, mmap_size, live, rt, snap, ops, lock>>

\* memfile_lock_exclusive: flock(mf->fd, LOCK_EX) and nothing else; the call
\* blocks while the other process holds the lock
LockExclusive(p) ==
    /\ fault = "none"
    /\ IF p = 1 THEN state = "Open" ELSE peer.open
    /\ lock = 0
    /\ lock' = p
    /\ last' = Call("lock_exclusive", p, 0, "none")
    /\ events' = <<>>
    /\ buf' = <<>>
    /\ UNCHANGED <<state, fault, mem, st_size, mmap_size, live, rt, snap, ops, peer>>

\* memfile_unlock: flock(mf->fd, LOCK_UN)
Unlock(p) ==
    /\ fault = "none"
    /\ lock = p
    /\ lock' = 0
    /\ last' = Call("unlock", p, 0, "none")
    /\ events' = <<>>
    /\ buf' = <<>>
    /\ UNCHANGED <<state, fault, mem, st_size, mmap_size, live, rt, snap, ops, peer>>

\* memfile_alloc called by the second process: the same file bytes, its own
\* mmap_size
PeerAlloc(size, sys) ==
    /\ peer.open
    /\ fault = "none"
    /\ LET r == memfile_alloc(mem, peer.mmap_size, st_size, size, sys)
           grows == /\ FindFit(mem, peer.mmap_size, 0, FreeListHead(mem),
                               TotalSize(size), {}).kind = "none"
                    /\ NeedsGrow(mem, TotalSize(size))
       IN  /\ grows \/ sys = "ok"
           /\ mem' = r.mem
           /\ peer' = [peer EXCEPT !.mmap_size = r.mmap_size]
           /\ st_size' = r.st_size
           /\ fault' = r.fault
           /\ last' = Call("peer_alloc", size, r.ret, IF grows THEN sys ELSE "none")
           /\ live' = IF r.fault = "none" /\ r.ret # 0
                      THEN [q \in DOMAIN live \cup {r.ret} |->
                               IF q = r.ret THEN size ELSE live[q]]
                      ELSE live
    /\ ops' = ops + 1
    /\ events' = <<>>
    /\ buf' = <<>>
    /\ snap' = NoSnap
    /\ UNCHANGED <<state, mmap_size, rt, lock>>

\* memfile_free called by the second process
PeerFree(offset) ==
    /\ peer.open
    /\ fault = "none"
    /\ offset \in DOMAIN live
    /\ LET r == memfile_free(mem, peer.mmap_size, offset)
       IN  /\ mem' = r.mem
           /\ fault' = r.fault
    /\ last' = Call("peer_free", offset, 0, "none")
    /\ live' = [q \in DOMAIN live \ {offset} |-> live[q]]
    /\ rt' = NoRt
    /\ ops' = ops + 1
    /\ events' = <<>>
    /\ buf' = <<>>
    /\ snap' = NoSnap
    /\ UNCHANGED <<state, st_size, mmap_size, peer, lock>>

\* memfile_coalesce called by the second process
PeerCoalesce ==
    /\ peer.open
    /\ fault = "none"
    /\ LET r == memfile_coalesce(mem, peer.mmap_size)
       IN  /\ mem' = r.mem
           /\ fault' = r.fault
    /\ last' = Call("peer_coalesce", 0, 0, "none")
    /\ rt' = NoRt
    /\ ops' = ops + 1
    /\ events' = <<>>
    /\ buf' = <<>>
    /\ snap' = NoSnap
    /\ UNCHANGED <<state, st_size, mmap_size, live, peer, lock>>

\* the size argument is not looked at when the file exists
OpenSizes == IF Exists(st_size) THEN {PageSize} ELSE InitialSizes
OpenFails == IF Exists(st_size) THEN OpenOutcomes \ {"ftruncate"} ELSE OpenOutcomes

\* the size a caller asks for to get the block it has just freed back
ReuseSizes ==
    IF last.op = "free" /\ last.a # 0 /\ LoadU64(mem, last.a - AllocHdrSize) >= AllocHdrSize
    THEN {LoadU64(mem, last.a - AllocHdrSize) - AllocHdrSize}
    ELSE {}

Next ==
    \/ \E initial_size \in OpenSizes, fail \in OpenFails : Open(initial_size, fail)
    \/ \E size \in AllocSizes \cup ReuseSizes, sys \in SysOutcomes :
          ops < MaxOps /\ Alloc(size, sys)
    \/ \E offset \in DOMAIN live : ops < MaxOps /\ Free(offset)
    \/ FreeNull
    \/ ops < MaxOps /\ Coalesce
    \/ \E p \in DOMAIN live : \E b \in Payloads(p) : ops < MaxOps /\ Write(p, b)
    \/ \E p \in DOMAIN live : Read(p)
    \/ Sync
    \/ Close

Spec == Init /\ [][Next]_vars

\* The allocator alone on a fresh 4096-byte file, no system call failing,
\* small requests only: longer call sequences than Spec explores.
DeepSizes == {0, 2}

NextDeep ==
    \/ state = "New" /\ Open(PageSize, "ok")
    \/ \E size \in DeepSizes \cup ReuseSizes : ops < MaxDeepOps /\ Alloc(size, "ok")
    \/ \E offset \in DOMAIN live : ops < MaxDeepOps /\ Free(offset)
    \/ ops < MaxDeepOps /\ Coalesce
    \/ \E p \in DOMAIN live : \E b \in Payloads(p) : ops < MaxDeepOps /\ Write(p, b)

SpecDeep == Init /\ [][NextDeep]_vars

\* Requests of every magnitude, growth included, with system calls failing:
\* sizes that fit, sizes that force either way of growing, and sizes so
\* close to the top of the u64 range that size + 8 or allocated + needed wraps.
WideSizes == {100, 300, U64Mod - 16, U64Mod - 8}

NextWide ==
    \/ state = "New" /\ \E initial_size \in InitialSizes : Open(initial_size, "ok")
    \/ \E size \in WideSizes, sys \in SysOutcomes :
          ops < MaxWideOps /\ Alloc(size, sys)
    \/ \E offset \in DOMAIN live : ops < MaxWideOps /\ Free(offset)
    \/ ops < MaxWideOps /\ Coalesce

SpecWide == Init /\ [][NextWide]_vars

\* read and write at offsets and lengths of every kind: in the header, in
\* blocks, at and past the end of the mapping, and with offset + len wrapping.
IoSizes == {2, 100}
IoOffsets == {0, 8, 40, mmap_size - 1, mmap_size, U64Mod - 8}
IoLens == {0, 2, U64Mod - 40, U64Mod - 8}

NextIO ==
    \/ state = "New" /\ \E initial_size \in InitialSizes : Open(initial_size, "ok")
    \/ \E size \in IoSizes : ops < MaxIoOps /\ Alloc(size, "ok")
    \/ \E offset \in DOMAIN live : ops < MaxIoOps /\ Free(offset)
    \/ \E offset \in IoOffsets, len \in IoLens : ReadAt(offset, len)
    \/ \E offset \in IoOffsets, len \in IoLens, v \in PayloadBytes :
          ops < MaxIoOps /\ WriteAt(offset, len, v)

SpecIO == Init /\ [][NextIO]_vars

\* The life cycle of handles on files of every kind: the path is absent, or
\* holds a file an earlier run left, or a file with another version or
\* another magic.
FoundFiles ==
    {[mem |-> <<>>, size |-> 0],
     [mem |-> FreshHeader(PageSize), size |-> PageSize],
     [mem |-> StoreU32(FreshHeader(PageSize), OffVersion, MEMFILE_VERSION + 1),
      size |-> PageSize],
     [mem |-> StoreU32(FreshHeader(PageSize), OffMagic, MEMFILE_MAGIC + 1),
      size |-> PageSize]}

InitOpen ==
    /\ \E f \in FoundFiles : mem = f.mem /\ st_size = f.size
    /\ state = "New"
    /\ fault = "none"
    /\ mmap_size = 0
    /\ events = <<>>
    /\ buf = <<>>
    /\ last = Call("none", 0, 0, "none")
    /\ live = NoLive
    /\ rt = NoRt
    /\ snap = NoSnap
    /\ ops = 0
    /\ peer = NoPeer
    /\ lock = 0

\* initial_size values around the threshold sizeof(memfile_header_t) + 64
FreshSizes == {0, 64, 95, 96, 128, 8192}

NextOpen ==
    \/ \E initial_size \in (IF Exists(st_size) THEN {PageSize} ELSE FreshSizes),
          fail \in OpenFails : Open(initial_size, fail)
    \/ \E size \in IoSizes : ops < MaxOpenOps /\ Alloc(size, "ok")
    \/ Sync
    \/ Close
    \/ Release

SpecOpen == InitOpen /\ [][NextOpen]_vars

\* Every operation of the public interface on a handle that has been
\* closed, after some allocations on it while it was open.
ClosedOffsets == {0, 40, mmap_size}
ClosedLens == {0, 2}

NextClosed ==
    \/ \E initial_size \in OpenSizes : Open(initial_size, "ok")
    \/ \E size \in IoSizes : ops < MaxClosedOps /\ Alloc(size, "ok")
    \/ \E offset \in DOMAIN live : ops < MaxClosedOps /\ Free(offset)
    \/ Close
    \/ \E offset \in ClosedOffsets, len \in ClosedLens : ClosedRead(offset, len)
    \/ \E offset \in ClosedOffsets, len \in ClosedLens : ClosedWrite(offset, len)
    \/ \E size \in IoSizes : ClosedAlloc(size)
    \/ \E offset \in DOMAIN live \cup {0, AllocHdrSize} : ClosedFree(offset)
    \/ ClosedCoalesce
    \/ ClosedStats

SpecClosed == Init /\ [][NextClosed]_vars

\* Two processes on one file, each calling alloc, free and coalesce only
\* while it holds the exclusive lock; no system call fails.
NextLock ==
    \/ state = "New" /\ \E initial_size \in InitialSizes : Open(initial_size, "ok")
    \/ PeerOpen
    \/ \E p \in {1, 2} : LockExclusive(p)
    \/ \E p \in {1, 2} : Unlock(p)
    \/ \E size \in IoSizes : lock = 1 /\ ops < MaxLockOps /\ Alloc(size, "ok")
    \/ \E offset \in DOMAIN live : lock = 1 /\ ops < MaxLockOps /\ Free(offset)
    \/ lock = 1 /\ ops < MaxLockOps /\ Coalesce
    \/ \E size \in IoSizes : lock = 2 /\ ops < MaxLockOps /\ PeerAlloc(size, "ok")
    \/ \E offset \in DOMAIN live : lock = 2 /\ ops < MaxLockOps /\ PeerFree(offset)
    \/ lock = 2 /\ ops < MaxLockOps /\ PeerCoalesce

SpecLock == Init /\ [][NextLock]_vars

(* ------------------------- observing the state ------------------------- *)
\* the free list as a reader following free_list_head sees it
FreeList == CollectBlocks(mem, mmap_size, FreeListHead(mem), <<>>)
FreeBlocks == FreeList.blocks

\* stored size of the block a caller-visible offset p designates
BlockSize(m, p) == LoadU64(m, p - AllocHdrSize)

\* byte ranges [a, a + n) and [b, b + k) share a byte
Overlap(a, n, b, k) == a < b + k /\ b < a + n

\* index in list order of the first free block of at least `total` bytes,
\* 0 when there is none
FirstFit(blocks, total) ==
    IF \E i \in 1..Len(blocks) : blocks[i].size >= total
    THEN CHOOSE i \in 1..Len(blocks) :
            /\ blocks[i].size >= total
            /\ \A j \in 1..(i - 1) : blocks[j].size < total
    ELSE 0

\* what points at the k-th node of the list: free_list_head or the next
\* field of the node before it
LinkTo(m, blocks, k) ==
    IF k = 1 THEN FreeListHead(m) ELSE LoadU64(m, blocks[k - 1].offset + 8)

RECURSIVE SumSizes(_)
SumSizes(blocks) ==
    IF blocks = <<>> THEN 0 ELSE blocks[1].size + SumSizes(Tail(blocks))

RECURSIVE SumLive(_)
SumLive(ps) ==
    IF ps = {} THEN 0
    ELSE LET p == CHOOSE x \in ps : TRUE
         IN  BlockSize(mem, p) + SumLive(ps \ {p})

(* ------------------------------- claims -------------------------------- *)
\* C1: every live block [p-8, p-8+size) lies inside [32, allocated), no live
\* offset is 0, no live block overlaps another live block or a block on the
\* free list, and the live and free blocks together fill [32, allocated).
C1_Layout ==
    IsOpen =>
        /\ \A p \in DOMAIN live :
              /\ p # 0
              /\ HeaderSize <= p - AllocHdrSize
              /\ p - AllocHdrSize + BlockSize(mem, p) <= Allocated(mem)
        /\ \A p, q \in DOMAIN live :
              p # q => ~Overlap(p - AllocHdrSize, BlockSize(mem, p),
                                q - AllocHdrSize, BlockSize(mem, q))
        /\ \A p \in DOMAIN live : \A i \in 1..Len(FreeBlocks) :
              ~Overlap(p - AllocHdrSize, BlockSize(mem, p),
                       FreeBlocks[i].offset, FreeBlocks[i].size)
        /\ SumLive(DOMAIN live) + SumSizes(FreeBlocks) = Allocated(mem) - HeaderSize

\* C2: a returned offset p has (p - 8) mod 8 = 0 and a stored size that is a
\* multiple of 8 and at least 16; so has every block on the free list.
C2_Alignment ==
    IsOpen =>
        /\ (last.op = "alloc" /\ last.ret # 0) =>
              /\ (last.ret - AllocHdrSize) % 8 = 0
              /\ BlockSize(mem, last.ret) % 8 = 0
              /\ BlockSize(mem, last.ret) >= FreeNodeSize
        /\ \A i \in 1..Len(FreeBlocks) :
              FreeBlocks[i].size % 8 = 0 /\ FreeBlocks[i].size >= FreeNodeSize

\* C3: the free list is finite, acyclic, ends with next = 0, and every node
\* offset o has 32 <= o and o + size <= allocated.
C3_FreeListWellFormed ==
    IsOpen =>
        /\ FreeList.kind = "ok"
        /\ \A i \in 1..Len(FreeBlocks) :
              /\ HeaderSize <= FreeBlocks[i].offset
              /\ FreeBlocks[i].offset + FreeBlocks[i].size <= Allocated(mem)

\* C4: 32 <= header.allocated <= header.file_size <= handle.mapped_size in
\* every state of an open handle.
C4_Capacity ==
    IsOpen =>
        /\ HeaderSize <= Allocated(mem)
        /\ Allocated(mem) <= FileSize(mem)
        /\ FileSize(mem) <= mmap_size

\* C5: after write(p, b) with p = alloc(len(b)), read(p, len(b)) returns b,
\* also after any number of allocs that follow the write.
C5_RoundTrip ==
    (IsOpen /\ rt.on) =>
        memfile_read(mem, mmap_size, rt.p, Len(rt.b)) = [rc |-> 0, buf |-> rt.b]

\* C6: close on an open handle issues msync, then munmap, then close(fd).
C6_CloseSyncsFirst ==
    (last.op = "close" /\ last.a = 1) =>
        /\ Len(events) >= 3
        /\ SubSeq(events, 1, 3) = <<"msync", "munmap", "close">>

\* C7: after sync and close, reopening the file yields the same file_size,
\* allocated and free_list_head, and read(p, n) returns the same bytes for
\* every live offset p.
C7_Persistence ==
    (last.op = "reopen" /\ last.ret = 1 /\ snap.on /\ snap.synced) =>
        /\ FileSize(mem) = snap.file_size
        /\ Allocated(mem) = snap.allocated
        /\ FreeListHead(mem) = snap.free_list_head
        /\ LiveReads(mem, mmap_size, live) = snap.reads

\* a reopen after sync and close, of a file with a live allocation that was
\* written to and a non-empty free list
C7_Witness ==
    /\ last.op = "reopen" /\ last.ret = 1 /\ snap.on /\ snap.synced
    /\ FreeListHead(mem) # 0
    /\ \E p \in DOMAIN live : live[p] > 0 /\ snap.reads[p].rc = 0
                              /\ snap.reads[p].buf[1] # 0

\* C8: alloc returns 0 exactly when no free block fits and the grow fails,
\* and then leaves the file bytes unchanged; in every other case it returns a
\* non-zero offset.
C8_AllocZero ==
    [][last'.op = "alloc" =>
          IF last'.sys \in {"ftruncate", "mremap"}
          THEN last'.ret = 0 /\ fault' = "none" /\ mem' = mem
          ELSE last'.ret # 0 /\ fault' = "none"]_vars

\* C9: after free(p), p's block having stored size s, the next alloc(s - 8)
\* returns exactly p.
C9_Reuse ==
    [][(/\ last.op = "free" /\ last.a # 0 /\ fault = "none"
        /\ last'.op = "alloc"
        /\ last'.a = BlockSize(mem, last.a) - AllocHdrSize)
       => (fault' = "none" /\ last'.ret = last.a)]_vars

\* C10: coalesce called on a free list of pairwise non-overlapping blocks
\* leaves a list with strictly ascending offsets, a.offset + a.size <
\* b.offset for consecutive a, b, ending with next = 0, covering the same
\* bytes as before.
Disjoint(blocks) ==
    \A i, j \in 1..Len(blocks) :
        i # j => ~Overlap(blocks[i].offset, blocks[i].size,
                          blocks[j].offset, blocks[j].size)

Covered(blocks) ==
    UNION {blocks[i].offset .. (blocks[i].offset + blocks[i].size - 1) :
              i \in 1..Len(blocks)}

SortedApart(blocks) ==
    \A i \in 1..(Len(blocks) - 1) :
        blocks[i].offset + blocks[i].size < blocks[i + 1].offset

C10_Coalesce ==
    [][(last'.op = "coalesce" /\ FreeList.kind = "ok" /\ Disjoint(FreeBlocks))
       => /\ fault' = "none"
          /\ FreeList'.kind = "ok"
          /\ \A i \in 1..(Len(FreeBlocks') - 1) :
                FreeBlocks'[i].offset < FreeBlocks'[i + 1].offset
          /\ SortedApart(FreeBlocks')
          /\ Covered(FreeBlocks') = Covered(FreeBlocks)]_vars

\* C11 (as the code has it): an alloc that grows the file resizes file and
\* mapping to mapped_size * 2 when that holds allocated + needed, and to
\* allocated + needed + 4096 otherwise; header.file_size and mapped_size
\* both equal that value afterwards.
C11_GrowSize ==
    [][(/\ last'.op = "alloc" /\ last'.sys = "ok" /\ last'.ret # 0
        /\ fault' = "none" /\ Allocated(mem) >= HeaderSize)
       => LET needed == TotalSize(last'.a)
              new_size == IF mmap_size * 2 >= Wrap(Allocated(mem) + needed)
                          THEN mmap_size * 2
                          ELSE Allocated(mem) + needed + PageSize
          IN  /\ mmap_size' = new_size
              /\ st_size' = new_size
              /\ FileSize(mem') = new_size]_vars

\* an alloc has grown the file to allocated + needed + 4096
C11_Witness ==
    /\ last.op = "alloc" /\ last.sys = "ok" /\ last.ret # 0 /\ fault = "none"
    /\ mmap_size = Allocated(mem) + PageSize
    /\ FileSize(mem) = mmap_size

\* C11 (as stated): an alloc that grows the file resizes file and mapping to
\* exactly max(mapped_size * 2, allocated + needed + 4096).
C11_GrowMax ==
    [][(/\ last'.op = "alloc" /\ last'.sys = "ok" /\ last'.ret # 0
        /\ fault' = "none" /\ Allocated(mem) >= HeaderSize)
       => LET needed == TotalSize(last'.a)
              new_size == IF mmap_size * 2 >= Allocated(mem) + needed + PageSize
                          THEN mmap_size * 2
                          ELSE Allocated(mem) + needed + PageSize
          IN  /\ mmap_size' = new_size
              /\ FileSize(mem') = new_size]_vars

\* C12: read and write return -1 and leave the mapping and the caller's
\* buffer untouched whenever the true sum offset + len exceeds mapped_size
\* (also when it wraps), and whenever offset is 0.
C12_OutOfBounds ==
    [][(/\ last'.op \in {"read_at", "write_at"}
        /\ (last'.a[1] + last'.a[2] > mmap_size \/ last'.a[1] = 0))
       => /\ last'.ret = -1
          /\ fault' = "none"
          /\ mem' = mem
          /\ buf' = <<>>]_vars

\* C13 (as the code has it): read and write succeed for every offset with
\* 0 < offset < mapped_size and every length with offset + len <=
\* mapped_size, wherever the range lies; read returns the bytes of the
\* range and write stores the caller's bytes there.
C13_InBounds ==
    [][(/\ last'.op \in {"read_at", "write_at"}
        /\ 0 < last'.a[1] /\ last'.a[1] < mmap_size
        /\ last'.a[1] + last'.a[2] <= mmap_size)
       => /\ last'.ret = 0
          /\ fault' = "none"
          /\ last'.op = "read_at" =>
                buf' = LoadBytes(mem, last'.a[1], last'.a[2]) /\ mem' = mem
          /\ last'.op = "write_at" =>
                \E v \in PayloadBytes :
                    mem' = StoreBytes(mem, last'.a[1], [i \in 1..last'.a[2] |-> v])]_vars

\* a write of two bytes into the file header has succeeded
C13_Witness ==
    /\ last.op = "write_at" /\ last.ret = 0 /\ fault = "none"
    /\ last.a = <<8, 2>>
    /\ Load8(mem, 8) \in PayloadBytes

\* C13 (as stated): read and write succeed for every offset and length with
\* offset + len <= mapped_size.
C13_AnyOffset ==
    [][(/\ last'.op \in {"read_at", "write_at"}
        /\ last'.a[1] + last'.a[2] <= mmap_size)
       => (last'.ret = 0 /\ fault' = "none")]_vars

\* C14: across alloc (of any size), free and coalesce on one handle,
\* header.allocated never decreases and header.file_size never decreases.
C14_Monotone ==
    [][(IsOpen /\ last'.op \in {"alloc", "free", "coalesce"})
       => /\ Allocated(mem') >= Allocated(mem)
          /\ FileSize(mem') >= FileSize(mem)]_vars

\* C15 (as the code has it): opening an absent or empty file creates a file
\* and mapping of 4096 bytes when initial_size < 96 and of initial_size
\* bytes otherwise, holding nothing but the header magic = 0x4D454D46,
\* version = 1, file_size = mapped_size, allocated = 32, free_list_head = 0.
C15_FreshOpen ==
    [][(last'.op = "open" /\ last'.ret = 1)
       => LET n == IF last'.a < 96 THEN 4096 ELSE last'.a
          IN  /\ state' = "Open"
              /\ mmap_size' = n
              /\ st_size' = n
              /\ Magic(mem') = 1296387398
              /\ Version(mem') = 1
              /\ FileSize(mem') = n
              /\ Allocated(mem') = 32
              /\ FreeListHead(mem') = 0
              /\ DOMAIN mem' \subseteq 0..31]_vars

\* a fresh file was opened with initial_size = 96 and is 96 bytes long
C15_Witness ==
    /\ last.op = "open" /\ last.ret = 1 /\ last.a = 96
    /\ state = "Open" /\ mmap_size = 96 /\ FileSize(mem) = 96

\* C15 (as stated): opening an absent or empty file creates a file and
\* mapping of max(initial_size, 4096) bytes.
C15_OpenMax ==
    [][(last'.op = "open" /\ last'.ret = 1)
       => LET n == IF last'.a < 4096 THEN 4096 ELSE last'.a
          IN  /\ mmap_size' = n
              /\ st_size' = n
              /\ FileSize(mem') = n]_vars

\* C16: opening an existing non-empty file returns no handle and leaves the
\* file as it is whenever its magic is not 0x4D454D46 or its version is not
\* 1; it succeeds only when both match.
C16_BadFormat ==
    [][(last'.op = "reopen")
       => /\ (Magic(mem) # 1296387398 \/ Version(mem) # 1)
                => (last'.ret = 0 /\ state' = "New" /\ mem' = mem
                    /\ st_size' = st_size)
          /\ last'.ret = 1
                => (Magic(mem) = 1296387398 /\ Version(mem) = 1)]_vars

\* C17: once a handle is closed, every further close, every sync and the
\* finalizer's close issue no msync, munmap or close(fd) and do not release
\* the path string; the file and the handle stay as they are.
C17_ClosedNoOp ==
    [][(state = "Closed" /\ last'.op \in {"sync", "close", "release"})
       => /\ \A i \in 1..Len(events') :
                events'[i] \notin {"msync", "munmap", "close", "free_path"}
          /\ last'.op \in {"sync", "close"} => (events' = <<>> /\ state' = "Closed")
          /\ UNCHANGED <<mem, st_size, mmap_size, fault>>]_vars

\* the finalizer has run on a handle that was closed explicitly
C17_Witness ==
    /\ last.op = "release" /\ last.a = 0
    /\ events = <<"free_mf">>
    /\ Exists(st_size)

C19_Split ==
    [][(/\ last'.op = "alloc" /\ FreeList.kind = "ok"
        /\ FirstFit(FreeBlocks, TotalSize(last'.a)) # 0
        /\ FreeBlocks[FirstFit(FreeBlocks, TotalSize(last'.a))].size
              - TotalSize(last'.a) >= 24)
       => LET total == TotalSize(last'.a)
              k == FirstFit(FreeBlocks, total)
              f == FreeBlocks[k].offset
              fs == FreeBlocks[k].size
          IN  /\ fault' = "none"
              /\ last'.ret = f + AllocHdrSize
              /\ BlockSize(mem', last'.ret) = total
              /\ FreeList'.kind = "ok"
              /\ FreeBlocks' = [FreeBlocks EXCEPT
                                  ![k] = [offset |-> f + total, size |-> fs - total]]
              /\ LinkTo(mem', FreeBlocks', k) = f + total
              /\ LoadU64(mem', f + total + 8) = LoadU64(mem, f + 8)]_vars

\* C20: when the node alloc picks, at offset f with size fs, has
\* fs - total < 24, the node is unlinked (its predecessor or free_list_head
\* points to its successor), the block at f keeps size fs, and a free of the
\* returned offset puts a node of fs bytes at f back on the list.
C20_Consume ==
    [][/\ (/\ last'.op = "alloc" /\ FreeList.kind = "ok"
           /\ FirstFit(FreeBlocks, TotalSize(last'.a)) # 0
           /\ FreeBlocks[FirstFit(FreeBlocks, TotalSize(last'.a))].size
                 - TotalSize(last'.a) < 24)
          => LET total == TotalSize(last'.a)
                 k == FirstFit(FreeBlocks, total)
                 f == FreeBlocks[k].offset
                 fs == FreeBlocks[k].size
                 freed == memfile_free(mem', mmap_size', last'.ret)
             IN  /\ fault' = "none"
                 /\ last'.ret = f + AllocHdrSize
                 /\ BlockSize(mem', last'.ret) = fs
                 /\ FreeList'.kind = "ok"
                 /\ FreeBlocks' = [i \in 1..(Len(FreeBlocks) - 1) |->
                                      IF i < k THEN FreeBlocks[i] ELSE FreeBlocks[i + 1]]
                 /\ LinkTo(mem', FreeBlocks, k) = LoadU64(mem, f + 8)
                 /\ freed.fault = "none"
                 /\ FreeListHead(freed.mem) = f
                 /\ LoadU64(freed.mem, f) = fs
       /\ (/\ last.op = "alloc" /\ last.ret # 0 /\ fault = "none"
           /\ last'.op = "free" /\ last'.a = last.ret)
          => /\ fault' = "none"
             /\ FreeListHead(mem') = last.ret - AllocHdrSize
             /\ LoadU64(mem', FreeListHead(mem')) = BlockSize(mem, last.ret)]_vars

\* C21: for every 64-bit size, a non-zero offset returned by alloc(size)
\* designates a block whose stored size is not 0 and is at least size + 8
\* (the true sum), and the call does not move header.allocated backwards.
C21_NoWrap ==
    [][(last'.op = "alloc" /\ fault' = "none" /\ last'.ret # 0)
       => /\ BlockSize(mem', last'.ret) # 0
          /\ BlockSize(mem', last'.ret) >= last'.a + AllocHdrSize
          /\ Allocated(mem') >= Allocated(mem)]_vars

\* C22: on a closed handle, read, write, alloc, free, coalesce and stats are
\* rejected or do nothing; none of them goes through the stale base address
\* or header pointer.
C22_ClosedRejects ==
    [][(/\ state = "Closed"
        /\ last'.op \in {"read_at", "write_at", "alloc", "free", "coalesce", "stats"})
       => /\ fault' = "none"
          /\ UNCHANGED <<mem, st_size, mmap_size>>]_vars

\* C23: with every alloc, free and coalesce of two processes made under
\* the exclusive lock, header.file_size <= mapped_size holds for a process's
\* own handle whenever it acquires the lock, and no alloc, free or coalesce
\* of either process goes to an offset outside that process's mapping.
C23_LockedSessions ==
    [][/\ (lock = 0 /\ lock' = 1) => FileSize(mem) <= mmap_size
       /\ (lock = 0 /\ lock' = 2) => FileSize(mem) <= peer.mmap_size
       /\ last'.op \in {"alloc", "free", "coalesce",
                        "peer_alloc", "peer_free", "peer_coalesce"}
             => fault' = "none"]_vars

====
